---- MODULE Spec2Model ----
(***************************************************************************)
(* PDF_collator.py: filename validation (name_check, strip_chars), range   *)
(* expansion (get_ranges), CoC lookup (find_coc), back-check (backcheck)   *)
(* and the recursive stack-draining reconciliation (aggregator).           *)
(*                                                                         *)
(* File names are sequences of one-character strings, so that slicing,     *)
(* startswith, int(), str(), split and sort are computed on characters as  *)
(* Python computes them.                                                   *)
(***************************************************************************)
EXTENDS Integers, Sequences, FiniteSets, TLC

VARIABLES
    pc,               \* position of main(): "main", "strip_chars", "aggregator", "done", "exit", "RecursionError", "ValueError", "probed"
    AusDir,           \* os.listdir(AUS_COCS): sequence of file names, in listing order
    CorpDir,          \* os.listdir(CORP_COCS)
    PtDir,            \* os.listdir(PT_COCS)
    RevdDir,          \* os.listdir(REVD_REPORTS): the scanned pages (a set: its order is never used)
    bad_names,        \* name_check's list of badly named CoCs
    coc_list,         \* name_check's list of all CoC names
    coc_tuple,        \* (A_set, C_set, P_set)
    bad_pdf_names,    \* strip_chars' list of badly named pages
    pdf_stack,        \* the page stack the aggregator drains
    missing_coc_list, \* pages for which no CoC was found
    report_dict,      \* the report dictionary, in insertion order: sequence of [key, coc, pdfs, missing_pdfs]
    depth,            \* number of active aggregator frames (every iteration recurses)
    hashseed,         \* the interpreter's string hash seed; decides the order of list(set)
    probe,            \* the parts the CoC name under test was built from (name-level runs)
    required,         \* get_ranges of the probed name (name-level runs)
    run,              \* 1 for the first aggregator call, 2 for the second
    first_call        \* inputs and results of the first aggregator call, once a second one was made

vars == <<pc, AusDir, CorpDir, PtDir, RevdDir, bad_names, coc_list, coc_tuple,
          bad_pdf_names, pdf_stack, missing_coc_list, report_dict, depth,
          hashseed, probe, required, run, first_call>>

----------------------------------------------------------------------------
(* Characters and Python's string primitives *)

Digits == <<"0", "1", "2", "3", "4", "5", "6", "7", "8", "9">>

\* The characters that occur in the file names, in code point order.
Alphabet == <<" ", "-", ".", "/", "0", "1", "2", "3", "4", "5", "6", "7", "8", "9",
              "C", "D", "P", "Q", "S", "W", "_",
              "a", "b", "c", "d", "e", "f", "g", "j", "o", "p", "r", "t", "x">>

ord(c) == CHOOSE i \in DOMAIN Alphabet : Alphabet[i] = c

IsDigit(c) == \E i \in DOMAIN Digits : Digits[i] = c

DigitVal(c) == (CHOOSE i \in DOMAIN Digits : Digits[i] = c) - 1

Front(s) == SubSeq(s, 1, Len(s) - 1)

Last(s) == s[Len(s)]

\* int(s) for a non-empty string of decimal digits
RECURSIVE int(_)
int(s) == IF s = <<>> THEN 0 ELSE int(Front(s)) * 10 + DigitVal(Last(s))

\* str(n) for n >= 0: decimal digits, no padding
RECURSIVE str(_)
str(n) == IF n < 10 THEN <<Digits[n + 1]>> ELSE str(n \div 10) \o <<Digits[(n % 10) + 1]>>

\* s.isnumeric()
isnumeric(s) == s # <<>> /\ \A i \in DOMAIN s : IsDigit(s[i])

\* s.startswith(p)
startswith(s, p) == Len(p) <= Len(s) /\ SubSeq(s, 1, Len(p)) = p

\* s[:-7]
DropLast7(s) == SubSeq(s, 1, Len(s) - 7)

\* s[-7:]
Last7(s) == IF Len(s) <= 7 THEN s ELSE SubSeq(s, Len(s) - 6, Len(s))

\* c in s
Contains(s, c) == \E i \in DOMAIN s : s[i] = c

\* Python's string order: lexicographic by code point, a proper prefix first
RECURSIVE StrLess(_, _)
StrLess(a, b) ==
    IF b = <<>> THEN FALSE
    ELSE IF a = <<>> THEN TRUE
    ELSE IF a[1] # b[1] THEN ord(a[1]) < ord(b[1])
    ELSE StrLess(Tail(a), Tail(b))

SeqToSet(s) == {s[i] : i \in DOMAIN s}

\* sorted(S) of a set of strings
RECURSIVE SortSet(_)
SortSet(S) ==
    IF S = {} THEN <<>>
    ELSE LET m == CHOOSE x \in S : \A y \in S \ {x} : StrLess(x, y)
         IN <<m>> \o SortSet(S \ {m})

\* The literal suffixes
cocpdf == <<"c", "o", "c", ".", "p", "d", "f">>

dotpdf == <<".", "p", "d", "f">>

pg == <<"p", "g">>

Letters == {"a", "b", "c", "d"}

SamplePrefixes == {<<"Q", "C">>, <<"S", "P">>, <<"W", "P">>}

DS_Store == <<".", "D", "S", "_", "S", "t", "o", "r", "e">>

AllDigits(s) == \A i \in DOMAIN s : IsDigit(s[i])

\* list.remove(x) where x is known to be in the list: drops the first occurrence
RECURSIVE RemoveFirst(_, _)
RemoveFirst(s, x) ==
    IF s = <<>> THEN <<>>
    ELSE IF s[1] = x THEN Tail(s)
    ELSE <<s[1]>> \o RemoveFirst(Tail(s), x)

abs(n) == IF n < 0 THEN -n ELSE n

----------------------------------------------------------------------------
(* name_check *)

NoMatch == [matched |-> FALSE, group2 |-> <<>>, group3 |-> <<>>, group5 |-> <<>>, group6 |-> <<>>]

\* coc_RE.fullmatch(i). A group that took no part in the match is <<>>.
\* The name must end in coc.pdf; what precedes it is either
\*   (QC|WP|SP) ddd - ddd,  or
\*   ddd (ddd) ([a-d])? ( - (ddd) (\3)? )?
\* where the back-reference \3 fails when group 3 took no part, and is optional.
coc_RE_fullmatch(i) ==
    LET body == DropLast7(i)
        n == Len(body)
    IN  IF Len(i) < 7 \/ Last7(i) # cocpdf THEN NoMatch
        ELSE IF n >= 2 /\ SubSeq(body, 1, 2) \in {<<"Q", "C">>, <<"W", "P">>, <<"S", "P">>}
        THEN IF /\ n = 9
                /\ AllDigits(SubSeq(body, 3, 5))
                /\ body[6] = "-"
                /\ AllDigits(SubSeq(body, 7, 9))
             THEN [NoMatch EXCEPT !.matched = TRUE]
             ELSE NoMatch
        ELSE IF n < 6 \/ ~AllDigits(SubSeq(body, 1, 6)) THEN NoMatch
        ELSE LET g2 == SubSeq(body, 4, 6)
                 rest == SubSeq(body, 7, n)
                 g3 == IF rest # <<>> /\ rest[1] \in Letters THEN <<rest[1]>> ELSE <<>>
                 rest2 == SubSeq(rest, Len(g3) + 1, Len(rest))
             IN  IF rest2 = <<>>
                 THEN [matched |-> TRUE, group2 |-> g2, group3 |-> g3, group5 |-> <<>>, group6 |-> <<>>]
                 ELSE IF Len(rest2) >= 4 /\ rest2[1] = "-" /\ AllDigits(SubSeq(rest2, 2, 4))
                 THEN LET g5 == SubSeq(rest2, 2, 4)
                          rest3 == SubSeq(rest2, 5, Len(rest2))
                      IN  IF rest3 = <<>>
                          THEN [matched |-> TRUE, group2 |-> g2, group3 |-> g3, group5 |-> g5, group6 |-> <<>>]
                          ELSE IF g3 # <<>> /\ rest3 = g3
                          THEN [matched |-> TRUE, group2 |-> g2, group3 |-> g3, group5 |-> g5, group6 |-> g3]
                          ELSE NoMatch
                 ELSE NoMatch

\* first = int(match.group(2))
range_first(match) == int(match.group2)

\* bad_range without the test for a repeated number (400-400)
bad_range_decrementing_only(first, last) ==
    LET diff == abs(last - first)
    IN  last < first /\ diff < 100

\* The two range tests of name_check on first and last
bad_range(first, last) ==
    LET diff == abs(last - first)
    IN  diff = 0 \/ (last < first /\ diff < 100)

\* is_bad_name with the range tests applied to QC/WP/SP names too, on the numbers
\* either side of their dash
is_bad_name_sample_ranges(i) ==
    LET match == coc_RE_fullmatch(i)
    IN  IF match.matched
        THEN IF \E p \in SamplePrefixes : startswith(i, p)
             THEN bad_range(int(SubSeq(i, 3, 5)), int(SubSeq(i, 7, 9)))
             ELSE IF Contains(i, "-")
             THEN bad_range(range_first(match), int(match.group5))
             ELSE FALSE
        ELSE TRUE

\* The body of name_check's loop: TRUE when name i is appended to bad_names
is_bad_name(i) ==
    LET match == coc_RE_fullmatch(i)
    IN  IF match.matched
        THEN IF \E p \in SamplePrefixes : startswith(i, p) THEN FALSE
             ELSE IF Contains(i, "-")
             THEN bad_range(range_first(match), int(match.group5))
             ELSE FALSE
        ELSE TRUE

\* coc_list.extend(os.listdir(path)), then the removal of one .DS_Store
extend_listing(acc, listing) ==
    LET l == acc \o listing
    IN  IF Contains(l, DS_Store) THEN RemoveFirst(l, DS_Store) ELSE l

\* name_check(AUS_COCS, CORP_COCS, PT_COCS). bad_names is <<>> where the code
\* returns None: main() only tests its truth value.
name_check(aus, corp, pt) ==
    LET cl == extend_listing(extend_listing(extend_listing(<<>>, aus), corp), pt)
    IN  [bad_names |-> SelectSeq(cl, is_bad_name), coc_list |-> cl]

----------------------------------------------------------------------------
(* get_ranges *)

\* r.split('-') for a string with exactly one dash: the part before it
split_first(r) == SubSeq(r, 1, (CHOOSE i \in DOMAIN r : r[i] = "-") - 1)

\* r.split('-') for a string with exactly one dash: the part after it
split_last(r) == SubSeq(r, (CHOOSE i \in DOMAIN r : r[i] = "-") + 1, Len(r))

\* last after the 1000s rollover test, one past the end as range() takes it
rollover(first, last) == IF last < first THEN last + 1000 ELSE last

\* the branch for a numeric first: first and last are strings
normal_range(first, last) ==
    LET f == int(first)
        l == rollover(f, int(last) + 1)
    IN  {str(x) : x \in f .. (l - 1)}

\* rerun_range without the 1000s rollover
rerun_range_no_rollover(first, last) ==
    LET rerun_char == IF first = <<>> THEN <<>> ELSE <<Last(first)>>
        f == int(Front(first))
        l == int(Front(last)) + 1
    IN  {str(x) \o rerun_char : x \in f .. (l - 1)}

\* the rerun branch: the last character of each is stripped before int()
rerun_range(first, last) ==
    LET rerun_char == IF first = <<>> THEN <<>> ELSE <<Last(first)>>
        f == int(Front(first))
        l == rollover(f, int(Front(last)) + 1)
    IN  {str(x) \o rerun_char : x \in f .. (l - 1)}

get_ranges(coc_name) ==
    LET r == DropLast7(coc_name)
    IN  IF \E p \in SamplePrefixes : startswith(r, p) THEN {r}
        ELSE IF Contains(r, "-")
        THEN LET first == split_first(r)
                 last == SubSeq(first, 1, 3) \o split_last(r)
             IN  IF isnumeric(first) THEN normal_range(first, last)
                 ELSE rerun_range(first, last)
        ELSE {r}

----------------------------------------------------------------------------
(* The file names the directories may hold *)

\* n in 0..999 as three digits
Pad3(n) == <<Digits[(n \div 100) + 1], Digits[((n \div 10) % 10) + 1], Digits[(n % 10) + 1]>>

\* n in 0..999999 as six digits
Six(n) == Pad3(n \div 1000) \o Pad3(n % 1000)

Page(sample, n) == sample \o pg \o <<Digits[n + 1]>> \o dotpdf

QC123_456 == <<"Q", "C", "1", "2", "3", "-", "4", "5", "6">>

\* The file names the reviewed-reports directory may hold
PageUniverse ==
    { Page(Six(123456), 1), Page(Six(123456), 2), Page(Six(123450), 1), Page(Six(123452), 1),
      Page(Six(0), 1), Page(Six(2), 1), Page(Six(200000), 1), Page(QC123_456, 1),
      <<"j", "o", "b", "_", "7", " ">> \o Page(Six(123456) \o <<"a">>, 1) }

\* The file names each CoC directory may hold
AusUniverse ==
    { Six(123456) \o cocpdf,
      Six(123450) \o <<"-">> \o Pad3(452) \o cocpdf,
      Six(0) \o <<"-">> \o Pad3(2) \o cocpdf,
      DS_Store }

CorpUniverse ==
    { Six(123456) \o cocpdf,
      Six(123456) \o <<"a">> \o cocpdf,
      Six(2) \o <<"-">> \o Pad3(3) \o cocpdf,
      Six(123456) \o <<"-">> \o Pad3(450) \o cocpdf }

PtUniverse ==
    { QC123_456 \o cocpdf,
      Six(123456) \o <<"-">> \o Pad3(456) \o cocpdf }

----------------------------------------------------------------------------
(* strip_chars *)

\* name_RE.fullmatch(x): dddddd pg d .pdf, or (QC|WP|SP) ddd - ddd pg d .pdf
name_RE_fullmatch(x) ==
    \/ /\ Len(x) = 13
       /\ AllDigits(SubSeq(x, 1, 6))
       /\ SubSeq(x, 7, 8) = pg
       /\ IsDigit(x[9])
       /\ SubSeq(x, 10, 13) = dotpdf
    \/ /\ Len(x) = 16
       /\ SubSeq(x, 1, 2) \in {<<"Q", "C">>, <<"W", "P">>, <<"S", "P">>}
       /\ AllDigits(SubSeq(x, 3, 5))
       /\ x[6] = "-"
       /\ AllDigits(SubSeq(x, 7, 9))
       /\ SubSeq(x, 10, 11) = pg
       /\ IsDigit(x[12])
       /\ SubSeq(x, 13, 16) = dotpdf

\* The end of the match of prefix_RE (job_, digits, one blank) at the start of x,
\* or 0 when it does not match
prefix_RE_end(x) ==
    IF ~startswith(x, <<"j", "o", "b", "_">>) THEN 0
    ELSE LET stops == {k \in 5 .. Len(x) : ~IsDigit(x[k])}
         IN  IF stops = {} THEN 0
             ELSE LET k == CHOOSE m \in stops : \A o \in stops : m <= o
                  IN  IF x[k] = " " THEN k ELSE 0

\* The entry of dirlist after the loop: re.split(prefix_RE, x)[1] for a job name
\* whose prefix matches; the name itself otherwise (IndexError, or no job prefix)
stripped(x) ==
    IF startswith(x, <<"j", "o", "b">>) /\ prefix_RE_end(x) > 0
    THEN SubSeq(x, prefix_RE_end(x) + 1, Len(x))
    ELSE x

\* TRUE when the entry is appended to bad_pdf_names: a stripped name that fails
\* name_RE, or (IndexError) a job name whose prefix does not match
is_bad_pdf_name(x) ==
    IF startswith(x, <<"j", "o", "b">>) /\ prefix_RE_end(x) = 0 THEN TRUE
    ELSE ~name_RE_fullmatch(stripped(x))

\* strip_chars(REVD_REPORTS) on the listing: (valid_names, bad_pdf_names).
\* bad_pdf_names is <<>> where the code returns None: main() only tests its truth.
strip_chars(listing) ==
    LET dirlist == IF Contains(listing, DS_Store) THEN RemoveFirst(listing, DS_Store)
                   ELSE listing
        bad == SelectSeq(dirlist, is_bad_pdf_name)
    IN  [valid_names |-> {stripped(dirlist[i]) : i \in DOMAIN dirlist}
                             \ {stripped(bad[i]) : i \in DOMAIN bad},
         bad_pdf_names |-> [i \in DOMAIN bad |-> stripped(bad[i])]]

----------------------------------------------------------------------------
(* find_coc *)

\* Locations of the CoCs. The source leaves them as '' to be set per installation.
AUS_COCS == <<"/", "A">>

CORP_COCS == <<"/", "C">>

PT_COCS == <<"/", "P">>

\* os.path.join(a, b) for a relative b
path_join(a, b) ==
    IF a = <<>> \/ Last(a) = "/" THEN a \o b ELSE a \o <<"/">> \o b

\* os.path.basename(p)
basename(p) ==
    LET slashes == {i \in DOMAIN p : p[i] = "/"}
    IN  IF slashes = {} THEN p
        ELSE SubSeq(p, (CHOOSE i \in slashes : \A j \in slashes : j <= i) + 1, Len(p))

NotFound == [found |-> FALSE, path |-> <<>>]

\* The directory find_coc joins name i to
coc_dir(tuple, i) ==
    IF i \in tuple[1] THEN AUS_COCS
    ELSE IF i \in tuple[2] THEN CORP_COCS
    ELSE PT_COCS

\* find_coc that keeps scanning and returns the last name that starts with the pattern
find_coc_last_hit(list, tuple, pdf_name) ==
    LET pattern == DropLast7(pdf_name)
        hits == {n \in DOMAIN list : startswith(list[n], pattern)}
    IN  IF hits = {} THEN NotFound
        ELSE LET i == list[CHOOSE n \in hits : \A o \in hits : n >= o]
             IN  [found |-> TRUE, path |-> path_join(coc_dir(tuple, i), i)]

\* find_coc(coc_list, coc_tuple, pdf_name); NotFound where the code returns None
find_coc(list, tuple, pdf_name) ==
    LET pattern == DropLast7(pdf_name)
        hits == {n \in DOMAIN list : startswith(list[n], pattern)}
    IN  IF hits = {} THEN NotFound
        ELSE LET i == list[CHOOSE n \in hits : \A o \in hits : n <= o]
             IN  [found |-> TRUE, path |-> path_join(coc_dir(tuple, i), i)]

----------------------------------------------------------------------------
(* backcheck *)

\* list(S) of a set of strings: the order follows the strings' hashes, which the
\* interpreter's seed decides. A seed is a permutation of 1..SeedWidth; the
\* members are listed by the seed's value at their rank, so that a set of up to
\* SeedWidth members comes in every order. The largest set get_ranges returns for
\* the CoC names of the directories is that of 123450-452.
SeedWidth == Cardinality(get_ranges(Six(123450) \o <<"-">> \o Pad3(452) \o cocpdf))

Seeds == Permutations(1 .. SeedWidth)

list_of_set(seed, S) ==
    LET srt == SortSet(S)
        n == Len(srt)
        key(i) == seed[((i - 1) % SeedWidth) + 1] + SeedWidth * ((i - 1) \div SeedWidth)
        at(k) == CHOOSE i \in 1 .. n : Cardinality({j \in 1 .. n : key(j) <= key(i)}) = k
    IN  [k \in 1 .. n |-> srt[at(k)]]

\* The None of missing_pdfs
None == [is_none |-> TRUE, list |-> <<>>]

\* file_set with the suffix cut one character short (f[:-6])
file_set_short_cut(stack) == {SubSeq(stack[i], 1, Len(stack[i]) - 6) : i \in DOMAIN stack}

\* The set of present pdfs, the 'pg?.pdf' suffixes taken off
file_set(stack) == {DropLast7(stack[i]) : i \in DOMAIN stack}

\* backcheck(coc_name, pdf_stack): (list(required_pdfs), missing_pdfs)
backcheck(seed, coc_name, stack) ==
    LET required_pdfs == get_ranges(coc_name)
    IN  IF required_pdfs \subseteq file_set(stack)
        THEN [required_pdfs |-> list_of_set(seed, required_pdfs), missing_pdfs |-> None]
        ELSE [required_pdfs |-> list_of_set(seed, required_pdfs),
              missing_pdfs |-> [is_none |-> FALSE,
                                list |-> list_of_set(seed, required_pdfs \ file_set(stack))]]

----------------------------------------------------------------------------
(* aggregator *)

\* s.replace('coc', '')
RECURSIVE replace_coc(_)
replace_coc(s) ==
    IF s = <<>> THEN <<>>
    ELSE IF startswith(s, <<"c", "o", "c">>) THEN replace_coc(SubSeq(s, 4, Len(s)))
    ELSE <<s[1]>> \o replace_coc(Tail(s))

\* The two loops that build matched_pdfs: for j in required_pdfs, for k in pdf_stack
RECURSIVE matched_pdfs(_, _)
matched_pdfs(required_pdfs, stack) ==
    IF required_pdfs = <<>> THEN <<>>
    ELSE SelectSeq(stack, LAMBDA k : startswith(k, Head(required_pdfs)))
             \o matched_pdfs(Tail(required_pdfs), stack)

\* for f in matched: pdf_stack.remove(f). remove raises ValueError when f is no
\* longer in the list; the removals made before it stay made.
RECURSIVE remove_matched(_, _)
remove_matched(stack, matched) ==
    IF matched = <<>> THEN [stack |-> stack, error |-> FALSE]
    ELSE IF ~Contains(stack, Head(matched)) THEN [stack |-> stack, error |-> TRUE]
    ELSE remove_matched(RemoveFirst(stack, Head(matched)), Tail(matched))

\* list.sort() of a list of strings
RECURSIVE sort(_)
sort(l) ==
    IF l = <<>> THEN <<>>
    ELSE LET i == CHOOSE a \in DOMAIN l : \A b \in DOMAIN l : ~StrLess(l[b], l[a])
         IN  <<l[i]>> \o sort(SubSeq(l, 1, i - 1) \o SubSeq(l, i + 1, Len(l)))

\* report_dict[key] = entry: a new key goes last, a present key keeps its place
dict_set(d, entry) ==
    IF \E i \in DOMAIN d : d[i].key = entry.key
    THEN [i \in DOMAIN d |-> IF d[i].key = entry.key THEN entry ELSE d[i]]
    ELSE Append(d, entry)

----------------------------------------------------------------------------
(* Inputs of the name-level runs: CoC names built from parts *)

\* pre: QC/WP/SP or empty; hi, lo: the two halves of the 6-digit start;
\* l1, l2: the rerun letters (or empty); rng: a dash and a 3-digit end follow
NoProbe == [pre |-> <<>>, hi |-> 0, lo |-> 0, l1 |-> <<>>, rng |-> FALSE,
            end |-> 0, l2 |-> <<>>, tail |-> <<>>]

Render(p) ==
    p.pre \o (IF p.pre = <<>> THEN Pad3(p.hi) ELSE <<>>) \o Pad3(p.lo) \o p.l1
          \o (IF p.rng THEN <<"-">> \o Pad3(p.end) \o p.l2 ELSE <<>>) \o p.tail

ProbeHis == {0, 123, 999}

ProbeLos == {2, 456, 995, 999}

ProbeEnds == {0, 2, 3, 456, 458, 902}

NumericProbes ==
    {p \in [pre : {<<>>}, hi : ProbeHis, lo : ProbeLos, l1 : {<<>>, <<"a">>, <<"c">>, <<"e">>},
            rng : BOOLEAN, end : ProbeEnds, l2 : {<<>>, <<"a">>, <<"c">>}, tail : {cocpdf}] :
        p.rng \/ (p.end = 0 /\ p.l2 = <<>>)}

SampleProbes ==
    [pre : SamplePrefixes \cup {<<"Q", "P">>}, hi : {0}, lo : {123}, l1 : {<<>>, <<"a">>},
     rng : {TRUE}, end : {100, 123, 456}, l2 : {<<>>}, tail : {cocpdf}]

MalformedProbes ==
    [pre : {<<>>, <<"x">>}, hi : {123}, lo : {456}, l1 : {<<>>}, rng : BOOLEAN, end : {458},
     l2 : {<<>>}, tail : {cocpdf \o <<"x">>, <<"c", "o", "c">>, dotpdf}]

Probes == NumericProbes \cup SampleProbes \cup MalformedProbes

----------------------------------------------------------------------------
(* State *)

NoSeed == <<>>

NoCall == [made |-> FALSE, coc_list |-> <<>>, coc_tuple |-> <<{}, {}, {}>>, pdf_stack |-> <<>>,
           missing_coc_list |-> <<>>, report_dict |-> <<>>]

\* What main() holds before name_check, given the four directory listings
Start(aus, corp, pt, revd, p) ==
    /\ pc = "main"
    /\ AusDir = aus
    /\ CorpDir = corp
    /\ PtDir = pt
    /\ RevdDir = revd
    /\ bad_names = <<>>
    /\ coc_list = <<>>
    /\ coc_tuple = <<{}, {}, {}>>
    /\ bad_pdf_names = <<>>
    /\ pdf_stack = <<>>
    /\ missing_coc_list = <<>>
    /\ report_dict = <<>>
    /\ depth = 0
    /\ hashseed = NoSeed
    /\ probe = p
    /\ required = {}
    /\ run = 1
    /\ first_call = NoCall

InitNames == \E p \in Probes : Start(<<Render(p)>>, <<>>, <<>>, {}, p)

\* main() going on to strip_chars whatever name_check returned
NameCheck_goes_on ==
    /\ pc = "main"
    /\ LET res == name_check(AusDir, CorpDir, PtDir)
       IN  /\ bad_names' = res.bad_names
           /\ coc_list' = res.coc_list
           /\ pc' = "strip_chars"
    /\ UNCHANGED <<AusDir, CorpDir, PtDir, RevdDir, coc_tuple, bad_pdf_names, pdf_stack,
                   missing_coc_list, report_dict, depth, hashseed, probe, required, run,
                   first_call>>

\* main(): bad_names, coc_list = name_check(AUS_COCS, CORP_COCS, PT_COCS); exit on bad names
NameCheck ==
    /\ pc = "main"
    /\ LET res == name_check(AusDir, CorpDir, PtDir)
       IN  /\ bad_names' = res.bad_names
           /\ coc_list' = res.coc_list
           /\ pc' = IF res.bad_names # <<>> THEN "exit" ELSE "strip_chars"
    /\ UNCHANGED <<AusDir, CorpDir, PtDir, RevdDir, coc_tuple, bad_pdf_names, pdf_stack,
                   missing_coc_list, report_dict, depth, hashseed, probe, required, run,
                   first_call>>

\* get_ranges applied to a name that passed name_check
ProbeGetRanges ==
    /\ pc = "strip_chars"
    /\ probe # NoProbe
    /\ required' = get_ranges(coc_list[1])
    /\ pc' = "probed"
    /\ UNCHANGED <<AusDir, CorpDir, PtDir, RevdDir, bad_names, coc_list, coc_tuple,
                   bad_pdf_names, pdf_stack, missing_coc_list, report_dict, depth, hashseed,
                   probe, run, first_call>>

NextNames == NameCheck \/ ProbeGetRanges

SpecNames == InitNames /\ [][NextNames]_vars

----------------------------------------------------------------------------
(* Inputs of the reconciliation runs *)

MaxPages == 2

MaxCocs == 2

\* The listings of at most k distinct names of U, in every order
Listings(U, k) ==
    {l \in UNION {[1 .. n -> U] : n \in 0 .. k} : \A i, j \in DOMAIN l : l[i] = l[j] => i = j}

\* The sets of at most MaxPages names the reviewed-reports directory may hold
PageSets == {q \in SUBSET PageUniverse : Cardinality(q) <= MaxPages}

\* At most MaxCocs CoC names over the three directories, at most MaxPages pages
Init ==
    \E aus \in Listings(AusUniverse, MaxCocs) :
        \E corp \in Listings(CorpUniverse, MaxCocs - Len(aus)) :
            \E pt \in Listings(PtUniverse, MaxCocs - Len(aus) - Len(corp)) :
                \E pages \in PageSets :
                    Start(aus, corp, pt, SortSet(pages), NoProbe)

\* The interpreter's recursion limit (1000 frames by default), scaled to the
\* bounds: two frames more than a run that removes a page per iteration needs.
RecursionLimit == MaxPages + 2

----------------------------------------------------------------------------
(* main() from strip_chars to the call of aggregator *)

\* set(os.listdir(d)) with .DS_Store discarded
dir_set(listing) == SeqToSet(listing) \ {DS_Store}

StripChars ==
    /\ pc = "strip_chars"
    /\ probe = NoProbe
    /\ LET res == strip_chars(RevdDir)
       IN  /\ bad_pdf_names' = res.bad_pdf_names
           /\ pdf_stack' = SortSet(res.valid_names)
    /\ coc_tuple' = <<dir_set(AusDir), dir_set(CorpDir), dir_set(PtDir)>>
    /\ missing_coc_list' = <<>>
    /\ depth' = 1
    /\ pc' = "aggregator"
    /\ UNCHANGED <<AusDir, CorpDir, PtDir, RevdDir, bad_names, coc_list, report_dict,
                   hashseed, probe, required, run, first_call>>

----------------------------------------------------------------------------
(* One iteration of aggregator's while loop, in the innermost frame *)

\* The recursive call that ends every iteration
Recurse ==
    IF depth >= RecursionLimit
    THEN pc' = "RecursionError" /\ depth' = depth
    ELSE pc' = "aggregator" /\ depth' = depth + 1

\* coc is None: the page goes to missing_coc_list
AggMiss ==
    /\ pc = "aggregator"
    /\ pdf_stack # <<>>
    /\ ~find_coc(coc_list, coc_tuple, pdf_stack[1]).found
    /\ missing_coc_list' = Append(missing_coc_list, pdf_stack[1])
    /\ pdf_stack' = Tail(pdf_stack)
    /\ Recurse
    /\ UNCHANGED <<AusDir, CorpDir, PtDir, RevdDir, bad_names, coc_list, coc_tuple,
                   bad_pdf_names, report_dict, hashseed, probe, required, run, first_call>>

\* The order of a list(set) shows when missing_pdfs has two members or more, or
\* when a removal fails part way through matched_pdfs
order_shows(coc_name, stack) ==
    LET req == get_ranges(coc_name)
        m == matched_pdfs(SortSet(req), stack)
    IN  \/ Cardinality(req \ file_set(stack)) >= 2
        \/ Len(m) # Cardinality(SeqToSet(m))

\* The seeds the interpreter may be running with. The seed is drawn when the
\* interpreter starts; the model draws it at its first use.
seeds_now(coc_name, stack) ==
    IF hashseed # NoSeed THEN {hashseed}
    ELSE IF order_shows(coc_name, stack) THEN Seeds
    ELSE {[i \in 1 .. SeedWidth |-> i]}

\* a CoC was found: back-check, collect and remove the matched pages, emit the bundle
AggHit ==
    /\ pc = "aggregator"
    /\ pdf_stack # <<>>
    /\ LET coc == find_coc(coc_list, coc_tuple, pdf_stack[1])
           coc_name == basename(coc.path)
           report_name == replace_coc(coc_name)
       IN  /\ coc.found
           /\ \E seed \in seeds_now(coc_name, pdf_stack) :
                LET bc == backcheck(seed, coc_name, pdf_stack)
                    matched == matched_pdfs(bc.required_pdfs, pdf_stack)
                    removed == remove_matched(pdf_stack, matched)
                IN  /\ hashseed' = IF order_shows(coc_name, pdf_stack) THEN seed ELSE hashseed
                    /\ pdf_stack' = removed.stack
                    /\ IF removed.error
                       THEN /\ pc' = "ValueError"
                            /\ UNCHANGED <<report_dict, depth>>
                       ELSE /\ report_dict' = dict_set(report_dict,
                                                       [key |-> report_name,
                                                        coc |-> coc.path,
                                                        pdfs |-> sort(matched),
                                                        missing_pdfs |-> bc.missing_pdfs])
                            /\ Recurse
    /\ UNCHANGED <<AusDir, CorpDir, PtDir, RevdDir, bad_names, coc_list, coc_tuple,
                   bad_pdf_names, missing_coc_list, probe, required, run, first_call>>

\* pdf_stack == []: every frame's loop ends and the outermost returns
AggReturn ==
    /\ pc = "aggregator"
    /\ pdf_stack = <<>>
    /\ pc' = "done"
    /\ depth' = 0
    /\ UNCHANGED <<AusDir, CorpDir, PtDir, RevdDir, bad_names, coc_list, coc_tuple,
                   bad_pdf_names, pdf_stack, missing_coc_list, report_dict, hashseed,
                   probe, required, run, first_call>>

Next == NameCheck \/ StripChars \/ AggMiss \/ AggHit \/ AggReturn

Spec == Init /\ [][Next]_vars

----------------------------------------------------------------------------
(* A second reconciliation *)

TwicePages == 1

TwiceCocs == 1

\* The directory listings a run of at most TwicePages pages and TwiceCocs CoCs may find
TwiceInputs ==
    {in \in [aus : Listings(AusUniverse, TwiceCocs), corp : Listings(CorpUniverse, TwiceCocs),
             pt : Listings(PtUniverse, TwiceCocs),
             revd : {SortSet(pages) : pages \in {q \in SUBSET PageUniverse :
                                                    Cardinality(q) <= TwicePages}}] :
        Len(in.aus) + Len(in.corp) + Len(in.pt) <= TwiceCocs}

InitTwice == \E in \in TwiceInputs : Start(in.aus, in.corp, in.pt, in.revd, NoProbe)

\* What the first call was given and what it returned
FirstCall ==
    [made |-> TRUE, coc_list |-> coc_list, coc_tuple |-> coc_tuple,
     pdf_stack |-> SortSet(strip_chars(RevdDir).valid_names),
     missing_coc_list |-> missing_coc_list, report_dict |-> report_dict]

\* The same interpreter checks the directories and calls aggregator once more, as
\* main() calls it: a new missing_coc_list and no report_dict argument, so the
\* dictionary is the one object the def statement made for the default.
CallAgain ==
    /\ pc = "done"
    /\ run = 1
    /\ \E in \in TwiceInputs :
        /\ AusDir' = in.aus
        /\ CorpDir' = in.corp
        /\ PtDir' = in.pt
        /\ RevdDir' = in.revd
    /\ first_call' = FirstCall
    /\ run' = 2
    /\ pc' = "main"
    /\ bad_names' = <<>>
    /\ coc_list' = <<>>
    /\ coc_tuple' = <<{}, {}, {}>>
    /\ bad_pdf_names' = <<>>
    /\ pdf_stack' = <<>>
    /\ missing_coc_list' = <<>>
    /\ UNCHANGED <<report_dict, depth, hashseed, probe, required>>

\* The program is started again on the same directories: a new interpreter, with
\* a new default dictionary and a new hash seed.
RunAgain ==
    /\ pc = "done"
    /\ run = 1
    /\ first_call' = FirstCall
    /\ run' = 2
    /\ pc' = "main"
    /\ bad_names' = <<>>
    /\ coc_list' = <<>>
    /\ coc_tuple' = <<{}, {}, {}>>
    /\ bad_pdf_names' = <<>>
    /\ pdf_stack' = <<>>
    /\ missing_coc_list' = <<>>
    /\ report_dict' = <<>>
    /\ hashseed' = NoSeed
    /\ UNCHANGED <<AusDir, CorpDir, PtDir, RevdDir, depth, probe, required>>

NextTwice == Next \/ CallAgain \/ RunAgain

SpecTwice == InitTwice /\ [][NextTwice]_vars

----------------------------------------------------------------------------
(* Properties of name_check and get_ranges, checked under SpecNames *)

\* The probed name is a numeric range name (a dash and a 3-digit end)
ProbeIsRange == probe # NoProbe /\ probe.pre = <<>> /\ probe.rng

\* first and last as the range is meant: the 6-digit start, and the start with its
\* final three digits replaced by the end, plus 1000 when that is below the start
ProbeFirst == probe.hi * 1000 + probe.lo

ProbeLast ==
    LET l == probe.hi * 1000 + probe.end
    IN  IF l < ProbeFirst THEN l + 1000 ELSE l

\* The number a member of a range set stands for
MemberValue(m) == int(SelectSeq(m, IsDigit))

\* C3: for every range CoC name that name_check accepts, get_ranges returns a
\* non-empty set of last - first + 1 members, none outside [first, last].
C3_RangeSizeAndBounds ==
    (pc = "probed" /\ ProbeIsRange) =>
        /\ required # {}
        /\ Cardinality(required) = ProbeLast - ProbeFirst + 1
        /\ \A m \in required : MemberValue(m) \in ProbeFirst .. ProbeLast

\* C4: every member of the set get_ranges returns for a range CoC is six digits,
\* zero-padded, followed by the rerun letter of a rerun range.
C4_SixDigitMembers ==
    (pc = "probed" /\ ProbeIsRange) =>
        \A m \in required :
            LET d == SubSeq(m, 1, Len(m) - Len(probe.l1))
            IN  /\ Len(d) = 6
                /\ AllDigits(d)
                /\ SubSeq(m, Len(d) + 1, Len(m)) = probe.l1

\* C5: a grammar-matching range name is marked bad exactly when the last three
\* digits of its start equal its end, or the end is below them by less than 100.
C5_RangeRejectedExactly ==
    (pc # "main" /\ ProbeIsRange /\ coc_RE_fullmatch(Render(probe)).matched) =>
        (bad_names # <<>> <=>
            \/ probe.end = probe.lo
            \/ (probe.end < probe.lo /\ probe.lo - probe.end < 100))

\* A decrementing range (999-902) was marked bad and the run exits
C5_Witness ==
    /\ pc = "exit"
    /\ ProbeIsRange
    /\ coc_RE_fullmatch(Render(probe)).matched
    /\ probe.end < probe.lo
    /\ bad_names = <<Render(probe)>>

\* C6: an accepted range name has the same rerun letter on both ends, or none;
\* a letter on one end only, or two different letters, makes it a bad name.
C6_MatchingRerunLetters ==
    (pc # "main" /\ ProbeIsRange /\ bad_names = <<>>) => probe.l1 = probe.l2

\* C7: the set of an accepted rerun range is the set of the same name without its
\* letters, with the letter appended to each member; 123456a-458a gives
\* 123456a, 123457a, 123458a.
C7_RerunAsNonRerun ==
    (pc = "probed" /\ ProbeIsRange /\ probe.l1 # <<>> /\ probe.l2 = probe.l1) =>
        /\ required = {x \o probe.l1 :
                          x \in get_ranges(Render([probe EXCEPT !.l1 = <<>>, !.l2 = <<>>]))}
        /\ (probe.hi = 123 /\ probe.lo = 456 /\ probe.end = 458 /\ probe.l1 = <<"a">>) =>
               required = {<<"1", "2", "3", "4", "5", "6", "a">>,
                           <<"1", "2", "3", "4", "5", "7", "a">>,
                           <<"1", "2", "3", "4", "5", "8", "a">>}

\* A rerun range whose end is below its start (995a-002a) was expanded
C7_Witness ==
    /\ pc = "probed"
    /\ ProbeIsRange
    /\ probe.l1 = <<"a">>
    /\ probe.l2 = <<"a">>
    /\ probe.end < probe.lo
    /\ Cardinality(required) = 8

\* The probed name is a single number, with or without a rerun letter
ProbeIsSingle == probe # NoProbe /\ probe.pre = <<>> /\ ~probe.rng

\* The probed name starts with QC, WP or SP
ProbeIsSample == probe # NoProbe /\ probe.pre \in SamplePrefixes

\* The probed name without its coc.pdf
ProbeId == Render([probe EXCEPT !.tail = <<>>])

\* C13: for a single-number name, with or without a rerun letter, and for a
\* QC/WP/SP name, get_ranges returns the set of the one name without its coc.pdf;
\* QC123-456 gives QC123-456 alone, and name_check accepts every grammar-matching
\* QC/WP/SP name, whatever the two numbers either side of its dash.
C13_SingleAndSampleNames ==
    /\ (pc = "probed" /\ (ProbeIsSingle \/ ProbeIsSample))
           => /\ required = {ProbeId}
              /\ Render(probe) = QC123_456 \o cocpdf => required = {QC123_456}
    /\ (pc # "main" /\ ProbeIsSample /\ coc_RE_fullmatch(Render(probe)).matched)
           => bad_names = <<>>

\* A QC/WP/SP name whose second number is below its first by less than 100
\* (123-100) passed name_check and was expanded to itself
C13_Witness ==
    /\ pc = "probed"
    /\ ProbeIsSample
    /\ probe.end < probe.lo
    /\ probe.lo - probe.end < 100
    /\ required = {ProbeId}

----------------------------------------------------------------------------
(* Properties of the reconciliation, checked under Spec *)

\* The validated page set the aggregator was called with
OriginalPages == strip_chars(RevdDir).valid_names

InAggregator == pc \in {"aggregator", "done", "RecursionError", "ValueError"}

\* How many times x occurs in list l
Count(l, x) == Cardinality({i \in DOMAIN l : l[i] = x})

\* How many bundles hold page x, each counted with the times it holds it
RECURSIVE CountInBundles(_, _)
CountInBundles(d, x) ==
    IF d = <<>> THEN 0 ELSE Count(d[1].pdfs, x) + CountInBundles(Tail(d), x)

\* C1: every iteration of the drain loop removes at least one page from
\* pdf_stack, so the reconciliation ends with an empty stack and no exception.
C1_EveryIterationRemovesAPage ==
    /\ [](pc \notin {"RecursionError", "ValueError"})
    /\ [][(pc = "aggregator" /\ pdf_stack # <<>>) => Len(pdf_stack') < Len(pdf_stack)]_vars

\* C2: every page of the validated page set is in exactly one of pdf_stack,
\* missing_coc_list and the pdfs of exactly one bundle, once.
C2_EveryPageInOnePlace ==
    InAggregator =>
        \A x \in OriginalPages :
            Count(pdf_stack, x) + Count(missing_coc_list, x) + CountInBundles(report_dict, x) = 1

\* The name of the CoC found for the page at the head of the stack
PeekedCoc == basename(find_coc(coc_list, coc_tuple, pdf_stack[1]).path)

\* The bundle of report_dict under the key of CoC name n
Bundle(d, n) == d[CHOOSE i \in DOMAIN d : d[i].key = replace_coc(n)]

\* C8: the missing_pdfs of an emitted bundle is the set of the CoC's required
\* numbers that are the prefix of no page on the stack at that moment, and None
\* when there is none; 123450-452 with pages 123450pg1 and 123452pg1 gives 123451.
C8_MissingDetection ==
    [][(/\ pc = "aggregator"
        /\ pdf_stack # <<>>
        /\ find_coc(coc_list, coc_tuple, pdf_stack[1]).found
        /\ pc' # "ValueError")
       => LET expected == {r \in get_ranges(PeekedCoc) :
                              ~\E i \in DOMAIN pdf_stack :
                                  /\ Len(pdf_stack[i]) = Len(r) + 7
                                  /\ startswith(pdf_stack[i], r)}
              got == Bundle(report_dict', PeekedCoc).missing_pdfs
          IN  /\ got.is_none <=> expected = {}
              /\ SeqToSet(got.list) = expected
              /\ Len(got.list) = Cardinality(expected)
              /\ (/\ PeekedCoc = Six(123450) \o <<"-">> \o Pad3(452) \o cocpdf
                  /\ pdf_stack = <<Page(Six(123450), 1), Page(Six(123452), 1)>>)
                 => got.list = <<Six(123451)>>]_vars

\* The run of CoC 123450-452 with pages 123450pg1 and 123452pg1 has returned
C8_Witness ==
    /\ pc = "done"
    /\ RevdDir = <<Page(Six(123450), 1), Page(Six(123452), 1)>>
    /\ Len(report_dict) = 1
    /\ report_dict[1].coc = path_join(AUS_COCS, Six(123450) \o <<"-">> \o Pad3(452) \o cocpdf)
    /\ report_dict[1].missing_pdfs = [is_none |-> FALSE, list |-> <<Six(123451)>>]

\* The prefix of a validated page name: what precedes pg, a digit and .pdf. By
\* name_RE it is six digits, or QC/WP/SP with ddd-ddd.
PagePrefix(page) ==
    IF IsDigit(page[1]) THEN SubSeq(page, 1, 6) ELSE SubSeq(page, 1, 9)

\* The names of the three collections, Austin then Corpus then PT, each in the
\* order of its listing
CollectionNames == SelectSeq(AusDir \o CorpDir \o PtDir, LAMBDA n : n # DS_Store)

\* The directory of the first collection that holds name n
CollectionDir(n) ==
    IF n \in SeqToSet(AusDir) THEN AUS_COCS
    ELSE IF n \in SeqToSet(CorpDir) THEN CORP_COCS
    ELSE PT_COCS

\* C11: find_coc returns the first name of the collections, taken Austin, Corpus,
\* PT, that starts with the peeked page's prefix, joined to the directory of the
\* first collection holding that name; when no name starts with the prefix it
\* returns None and the page goes to missing_coc_list.
C11_FirstMatchOrNone ==
    [][(pc = "aggregator" /\ pdf_stack # <<>>)
       => LET prefix == PagePrefix(pdf_stack[1])
              hits == {n \in DOMAIN CollectionNames : startswith(CollectionNames[n], prefix)}
          IN  IF hits = {}
              THEN /\ missing_coc_list' = Append(missing_coc_list, pdf_stack[1])
                   /\ report_dict' = report_dict
                   /\ pc' # "ValueError"
              ELSE LET first == CollectionNames[CHOOSE n \in hits : \A o \in hits : n <= o]
                   IN  /\ missing_coc_list' = missing_coc_list
                       /\ pc' # "ValueError"
                            => \E i \in DOMAIN report_dict' :
                                   /\ report_dict'[i].key = replace_coc(first)
                                   /\ report_dict'[i].coc
                                          = path_join(CollectionDir(first), first)]_vars

\* A run has returned in which two Corpus names start with 123456, the bundle
\* went to the first of them, and a page with no CoC was set aside
C11_Witness ==
    /\ pc = "done"
    /\ Cardinality({n \in DOMAIN coc_list : startswith(coc_list[n], Six(123456))}) = 2
    /\ Len(report_dict) = 1
    /\ report_dict[1].coc = path_join(CORP_COCS, Six(123456) \o cocpdf)
    /\ report_dict[1].pdfs # <<>>
    /\ missing_coc_list # <<>>

\* The names of the collections that fail name_check
BadCollectionNames == SelectSeq(CollectionNames, is_bad_name)

\* C12: when a name of any collection fails name_check the run stops before the
\* reconciliation: aggregator is never entered, no page is set aside and no
\* bundle is made; the run exits holding every bad name of the three collections
\* in one list.
C12_BadNamesHaltRun ==
    BadCollectionNames # <<>>
    => /\ pc \in {"main", "exit"}
       /\ depth = 0
       /\ pdf_stack = <<>>
       /\ missing_coc_list = <<>>
       /\ report_dict = <<>>
       /\ pc = "exit" => bad_names = BadCollectionNames

\* A run has exited on two bad names, of two collections, with pages waiting in
\* the reviewed reports
C12_Witness ==
    /\ pc = "exit"
    /\ Len(bad_names) = 2
    /\ CorpDir # <<>>
    /\ PtDir # <<>>
    /\ RevdDir # <<>>

\* C14: every page in the pdfs of a bundle has a prefix that is a member of the
\* set get_ranges returns for the bundle's CoC, and is in the list once; no page
\* with a prefix outside that set is collected.
C14_BundlePagesAreRequired ==
    \A i \in DOMAIN report_dict :
        LET pdfs == report_dict[i].pdfs
            required_pdfs == get_ranges(basename(report_dict[i].coc))
        IN  \A k \in DOMAIN pdfs :
                /\ PagePrefix(pdfs[k]) \in required_pdfs
                /\ Count(pdfs, pdfs[k]) = 1

\* C15: when find_coc finds a CoC for the page at the head of pdf_stack, the same
\* iteration removes that page from pdf_stack and puts it in the pdfs of the
\* bundle of that CoC.
C15_PeekedPageIsMatched ==
    [][(/\ pc = "aggregator"
        /\ pdf_stack # <<>>
        /\ find_coc(coc_list, coc_tuple, pdf_stack[1]).found)
       => /\ ~Contains(pdf_stack', pdf_stack[1])
          /\ \E i \in DOMAIN report_dict' :
                /\ report_dict'[i].key = replace_coc(PeekedCoc)
                /\ Contains(report_dict'[i].pdfs, pdf_stack[1])]_vars

----------------------------------------------------------------------------
(* Properties of two reconciliations, checked under SpecTwice *)

\* C9: the dictionary a second call of aggregator returns holds only bundles of
\* the second call's CoC list and page stack, none left from the first call.
C9_NoBundleLeftOver ==
    (run = 2 /\ pc = "done") =>
        \A i \in DOMAIN report_dict :
            /\ \E n \in DOMAIN coc_list : report_dict[i].key = replace_coc(coc_list[n])
            /\ SeqToSet(report_dict[i].pdfs) \subseteq OriginalPages

\* C10: a second reconciliation of equal inputs returns the same bundles (names,
\* coc paths, pdfs lists and missing_pdfs) and the same unresolved list.
C10_Idempotent ==
    (/\ run = 2
     /\ pc = "done"
     /\ coc_list = first_call.coc_list
     /\ coc_tuple = first_call.coc_tuple
     /\ SortSet(OriginalPages) = first_call.pdf_stack)
    => /\ report_dict = first_call.report_dict
       /\ missing_coc_list = first_call.missing_coc_list

====
